---- MODULE Spec2Model ----
(***************************************************************************)
(* The declaration checker of clang-tidy's misc-assignment-decl-exist     *)
(* (AssignmentDeclExistCheck.cpp): the type-string parser, the catalog of  *)
(* expected declarations read from the JSON file, the collection of the    *)
(* declarations the front-end reports, and the resolution, matching and    *)
(* report made at the end of the translation unit.                         *)
(*                                                                         *)
(* A std::string is a sequence of one-character strings; s[size()] is      *)
(* written NUL.  A std::map is a function whose domain is its key set; it  *)
(* is walked in the order of std::string's operator<.                      *)
(***************************************************************************)
EXTENDS Integers, Sequences, FiniteSets, TLC

VARIABLES
    config,        \* the file DeclFile names (the input of the run)
    pc,            \* where the pass stands
    decls,         \* Declarations decls (global)
    foundFuncs,    \* std::map<std::string, FuncDecl> foundFuncs
    funcLocMap,    \* std::map<std::string, SourceLocation> funcLocMap
    foundStructs,  \* std::map<std::string, ParamMap> foundStructs
    structLocMap,  \* std::map<std::string, SourceLocation> structLocMap
    lastLoc,       \* source location of the declaration visited last
    out,           \* what the pass has emitted: diag() calls and llvm::errs() lines
    visited,       \* how many declarations the matchers have delivered to check()
    units,         \* the translation units of the process so far: for each, the
                   \* declarations (places in SourceDecls) delivered to check(), in order
    leftover,      \* funcs, structs, unnamedFuncs, unnamedStructs, varStructs when the report is printed
    ppc,           \* parser harness: position
    str,           \* parser harness: the std::string at hand
    ti,            \* parser harness: the TypeInfo at hand
    res            \* parser harness: what parseType returned

vars == <<config, pc, decls, foundFuncs, funcLocMap, foundStructs, structLocMap,
          lastLoc, visited, units, out, leftover, ppc, str, ti, res>>

passVars == <<config, pc, decls, foundFuncs, funcLocMap, foundStructs,
              structLocMap, lastLoc, visited, units, out, leftover>>

parseVars == <<ppc, str, ti, res>>

-----------------------------------------------------------------------------
(* Characters and std::string *)

NUL == "NUL"

Lower == {"a","b","c","d","e","f","g","h","i","j","k","l","m",
          "n","o","p","q","r","s","t","u","v","w","x","y","z"}

Upper == {"A","B","C","D","E","F","G","H","I","J","K","L","M",
          "N","O","P","Q","R","S","T","U","V","W","X","Y","Z"}

Digit == {"0","1","2","3","4","5","6","7","8","9"}

isalpha(c) == c \in Lower \cup Upper

isAlphanumeric(c) == c \in Lower \cup Upper \cup Digit

\* The characters of the type strings in the order of their codes.
AsciiOrder ==
    <<" ", "%", "*", "0","1","2","3","4","5","6","7","8","9",
      "A","B","C","D","E","F","G","H","I","J","K","L","M",
      "N","O","P","Q","R","S","T","U","V","W","X","Y","Z", "_",
      "a","b","c","d","e","f","g","h","i","j","k","l","m",
      "n","o","p","q","r","s","t","u","v","w","x","y","z">>

Code(c) == CHOOSE i \in 1..Len(AsciiOrder) : AsciiOrder[i] = c

Min(a, b) == IF a < b THEN a ELSE b

\* s[pos] of a std::string, pos counted from 0; s[s.size()] is the terminator.
At(s, pos) == IF pos < Len(s) THEN s[pos + 1] ELSE NUL

\* s.substr(pos, n), for pos <= s.size().
substr(s, pos, n) == SubSeq(s, pos + 1, Min(pos + n, Len(s)))

\* std::string operator<: lexicographic by character code.
StrLess(a, b) ==
    LET n == Min(Len(a), Len(b))
        diff == {i \in 1..n : a[i] # b[i]}
    IN  IF diff = {} THEN Len(a) < Len(b)
        ELSE LET d == CHOOSE i \in diff : \A j \in diff : i <= j
             IN  Code(a[d]) < Code(b[d])

\* The keys of a std::map<std::string, _> in iteration order.
RECURSIVE SortedKeys(_)
SortedKeys(S) ==
    IF S = {} THEN <<>>
    ELSE LET mn == CHOOSE x \in S : \A y \in S : x = y \/ StrLess(x, y)
         IN  <<mn>> \o SortedKeys(S \ {mn})

EmptyMap == [k \in {} |-> 0]

\* m.insert(std::make_pair(k, v)): an existing key keeps its value.
MapInsert(m, k, v) ==
    [x \in DOMAIN m \cup {k} |-> IF x \in DOMAIN m THEN m[x] ELSE v]

\* m[k] = v
MapPut(m, k, v) == [x \in DOMAIN m \cup {k} |-> IF x = k THEN v ELSE m[x]]

\* m.erase(it) for the iterator at key k
MapErase(m, k) == [x \in DOMAIN m \ {k} |-> m[x]]

-----------------------------------------------------------------------------
(* TypeInfo and parseType *)

structPrefix == <<"s","t","r","u","c","t"," ">>

structPrefixLen == 7

TypeInfo(isVar, name, pointers) ==
    [isVar |-> isVar, name |-> name, pointers |-> pointers]

RECURSIVE Asterisks(_)
Asterisks(n) == IF n <= 0 THEN <<>> ELSE <<"*">> \o Asterisks(n - 1)

toString_LosesOne(t) ==
    (IF t.isVar THEN <<"%">> ELSE <<>>) \o t.name
      \o (IF t.pointers > 1 THEN <<" ">> \o Asterisks(t.pointers) ELSE <<>>)

toString(t) ==
    (IF t.isVar THEN <<"%">> ELSE <<>>) \o t.name
      \o (IF t.pointers > 0 THEN <<" ">> \o Asterisks(t.pointers) ELSE <<>>)

ParseOk(t) == [ok |-> TRUE, type |-> t, pos |-> 0]

\* llvm::make_error<ParseTypeError>(s, pos)
ParseTypeError(pos) == [ok |-> FALSE, type |-> TypeInfo(FALSE, <<>>, 0), pos |-> pos]

\* while (s[pos] == ' ') pos++;
RECURSIVE SkipSpaces(_, _)
SkipSpaces(s, pos) == IF At(s, pos) = " " THEN SkipSpaces(s, pos + 1) ELSE pos

\* while (isAlphanumeric(s[pos]) || s[pos] == '_') pos++;
RECURSIVE SkipIdentifier(_, _)
SkipIdentifier(s, pos) ==
    IF isAlphanumeric(At(s, pos)) \/ At(s, pos) = "_"
    THEN SkipIdentifier(s, pos + 1) ELSE pos

\* while (pos < s.length()) { '*' counts, anything else is the error }
RECURSIVE ParseAsterisks(_, _, _)
ParseAsterisks(s, pos, t) ==
    IF pos < Len(s)
    THEN IF At(s, pos) = "*"
         THEN ParseAsterisks(s, pos + 1, [t EXCEPT !.pointers = @ + 1])
         ELSE ParseTypeError(pos)
    ELSE ParseOk(t)

\* After the identifier and the spaces: the end of the string is an error,
\* and what is left must be asterisks.
parsePointers_ReportsWhereTheyBegin(s, ret, pos) ==
    IF pos = Len(s) THEN ParseTypeError(pos)
    ELSE IF ParseAsterisks(s, pos, ret).ok THEN ParseAsterisks(s, pos, ret)
    ELSE ParseTypeError(pos)

parsePointers(s, ret, pos) ==
    IF pos = Len(s) THEN ParseTypeError(pos)
    ELSE ParseAsterisks(s, pos, ret)

\* The identifier is s[pos..end-1]: done when it ends the string.
parseAfterIdentifier(s, isVar, pos, end) ==
    IF end = Len(s) THEN ParseOk(TypeInfo(isVar, SubSeq(s, pos + 1, end), 0))
    ELSE parsePointers(s, TypeInfo(isVar, SubSeq(s, pos + 1, end), 0),
                       SkipSpaces(s, end))

parseIdentifier(s, isVar, pos) ==
    IF ~(isalpha(At(s, pos)) \/ At(s, pos) = "_") THEN ParseTypeError(pos)
    ELSE parseAfterIdentifier(s, isVar, pos, SkipIdentifier(s, pos + 1))

\* if (s[pos] == '%') pos++;
SkipMarker(s) == IF At(s, 0) = "%" THEN 1 ELSE 0

\* if (s.substr(pos, strlen(structPrefix)) == structPrefix) { skip it and spaces }
SkipStruct(s, pos) ==
    IF substr(s, pos, structPrefixLen) = structPrefix
    THEN SkipSpaces(s, pos + structPrefixLen) ELSE pos

parseType(s) == parseIdentifier(s, At(s, 0) = "%", SkipStruct(s, SkipMarker(s)))

-----------------------------------------------------------------------------
(* FuncDecl, ParamMap and their pretty-printers *)

FuncDecl(p, ret) == [pMap |-> p, retType |-> ret]

DefaultFuncDecl == FuncDecl(EmptyMap, <<>>)

DigitChars == <<"0","1","2","3","4","5","6","7","8","9">>

\* operator<< of an int on a stream
RECURSIVE IntToStr(_)
IntToStr(n) ==
    IF n < 0 THEN <<"-">> \o IntToStr(0 - n)
    ELSE IF n < 10 THEN <<DigitChars[n + 1]>>
    ELSE IntToStr(n \div 10) \o <<DigitChars[(n % 10) + 1]>>

RECURSIVE prettyParams(_, _, _)
prettyParams(pMap, keys, i) ==
    IF i > Len(keys) THEN <<>>
    ELSE keys[i] \o <<":", " ">> \o IntToStr(pMap[keys[i]])
           \o (IF i < Len(keys) THEN <<",", " ">> ELSE <<>>)
           \o prettyParams(pMap, keys, i + 1)

\* FuncDecl::pretty()
pretty(fd) ==
    <<"(">> \o prettyParams(fd.pMap, SortedKeys(DOMAIN fd.pMap), 1)
      \o <<")", " ", "-", ">", " ">> \o fd.retType

RECURSIVE prettyMembers(_, _, _)
prettyMembers(pMap, keys, i) ==
    IF i > Len(keys) THEN <<>>
    ELSE keys[i] \o <<":", " ">> \o IntToStr(pMap[keys[i]]) \o <<";", " ">>
           \o prettyMembers(pMap, keys, i + 1)

prettyMapAsStruct(pMap) ==
    <<"{", " ">> \o prettyMembers(pMap, SortedKeys(DOMAIN pMap), 1) \o <<"}", ";">>

-----------------------------------------------------------------------------
(* Loading the catalog: fromJSON and registerMatchers *)

EmptyDeclarations ==
    [functions |-> EmptyMap, structs |-> EmptyMap,
     unnamedFunctions |-> <<>>, unnamedStructs |-> <<>>, varStructs |-> EmptyMap]

\* fromJSON(const llvm::json::Value &, FuncDecl &, llvm::json::Path)
fromJSON_FuncDecl(E, o) ==
    IF "params" \notin E.has THEN [ok |-> FALSE, out |-> o]
    ELSE IF "return" \notin E.has THEN [ok |-> FALSE, out |-> o]
    ELSE [ok |-> TRUE, out |-> FuncDecl(E.params, E.ret)]

\* llvm::json's fromJSON into std::map<std::string, FuncDecl>, from member i on:
\* Out[key] is created, then filled; the first member that fails ends the walk.
RECURSIVE fromJSON_FuncMap(_, _, _)
fromJSON_FuncMap(O, i, Out) ==
    IF i > Len(O) THEN [ok |-> TRUE, out |-> Out]
    ELSE LET slot == IF O[i].name \in DOMAIN Out THEN Out[O[i].name] ELSE DefaultFuncDecl
             r == fromJSON_FuncDecl(O[i], slot)
             Out2 == MapPut(Out, O[i].name, r.out)
         IN  IF r.ok THEN fromJSON_FuncMap(O, i + 1, Out2)
             ELSE [ok |-> FALSE, out |-> Out2]

\* llvm::json's fromJSON into std::vector<FuncDecl>: resized to the array, then
\* filled from element i on; the first element that fails ends the walk.
RECURSIVE fromJSON_FuncVector(_, _, _)
fromJSON_FuncVector(A, i, Out) ==
    IF i > Len(A) THEN [ok |-> TRUE, out |-> Out]
    ELSE LET r == fromJSON_FuncDecl(A[i], Out[i])
             Out2 == [Out EXCEPT ![i] = r.out]
         IN  IF r.ok THEN fromJSON_FuncVector(A, i + 1, Out2)
             ELSE [ok |-> FALSE, out |-> Out2]

\* llvm::json's fromJSON into std::map<std::string, ParamMap>
RECURSIVE fromJSON_ParamMapMap(_, _, _)
fromJSON_ParamMapMap(O, i, Out) ==
    IF i > Len(O) THEN Out
    ELSE fromJSON_ParamMapMap(O, i + 1, MapPut(Out, O[i].name, O[i].members))

\* fromJSON(const llvm::json::Value &, Declarations &, llvm::json::Path)
fromJSON_Declarations(E, o) ==
    LET fs == IF "functions" \in E.has
              THEN fromJSON_FuncMap(E.functions, 1, EmptyMap)
              ELSE [ok |-> TRUE, out |-> o.functions]
        o1 == [o EXCEPT !.functions = fs.out]
        o2 == IF "structs" \in E.has
              THEN [o1 EXCEPT !.structs = fromJSON_ParamMapMap(E.structs, 1, EmptyMap)]
              ELSE o1
        us == IF "functions*" \in E.has
              THEN fromJSON_FuncVector(E.unnamedFunctions, 1,
                       [j \in 1..Len(E.unnamedFunctions) |-> DefaultFuncDecl])
              ELSE [ok |-> TRUE, out |-> o2.unnamedFunctions]
        o3 == [o2 EXCEPT !.unnamedFunctions = us.out]
        o4 == IF "structs*" \in E.has
              THEN [o3 EXCEPT !.unnamedStructs = E.unnamedStructs] ELSE o3
        o5 == IF "%structs" \in E.has
              THEN [o4 EXCEPT !.varStructs = fromJSON_ParamMapMap(E.varStructs, 1, EmptyMap)]
              ELSE o4
    IN  IF ~fs.ok THEN [ok |-> FALSE, out |-> o1]
        ELSE IF ~us.ok THEN [ok |-> FALSE, out |-> o3]
        ELSE [ok |-> TRUE, out |-> o5]

\* One emitted item: a diag() call (ch = "diag", at loc, with the two format
\* arguments a and b) or one line of llvm::errs() (ch = "errs", text a).
Emit(ch, kind, loc, a, b) == [ch |-> ch, kind |-> kind, loc |-> loc, a |-> a, b |-> b]

ErrsLine(kind, a) == Emit("errs", kind, 0, a, <<>>)

-----------------------------------------------------------------------------
(* Collecting the declarations of the unit: check, checkFun, checkStruct *)

mainName == <<"m","a","i","n">>

removeStructPrefix(s) ==
    IF substr(s, 0, structPrefixLen) = structPrefix
    THEN SubSeq(s, structPrefixLen + 1, Len(s)) ELSE s

\* What t.getUnqualifiedType().getAsString() gave is the model's type string.
cleanTypeString(t) == removeStructPrefix(t)

\* typeStrings filled by the loop over parameters() or fields()
typeStrings(types) == [i \in 1..Len(types) |-> cleanTypeString(types[i])]

RECURSIVE countOccurrences(_, _, _)
countOccurrences(v, i, m) ==
    IF i > Len(v) THEN m
    ELSE countOccurrences(v, i + 1,
             MapPut(m, v[i], (IF v[i] \in DOMAIN m THEN m[v[i]] ELSE 0) + 1))

currentFunc(decl) ==
    FuncDecl(countOccurrences(typeStrings(decl.types), 1, EmptyMap),
             cleanTypeString(decl.ret))

currentStruct(decl) == countOccurrences(typeStrings(decl.types), 1, EmptyMap)

checkFun_NoMainGuard(decl) ==
    /\ foundFuncs' = MapInsert(foundFuncs, decl.name, currentFunc(decl))
    /\ funcLocMap' = MapInsert(funcLocMap, decl.name, decl.loc)
    /\ UNCHANGED <<foundStructs, structLocMap>>

checkFun(decl) ==
    IF decl.name = mainName
    THEN UNCHANGED <<foundFuncs, funcLocMap, foundStructs, structLocMap>>
    ELSE /\ foundFuncs' = MapInsert(foundFuncs, decl.name, currentFunc(decl))
         /\ funcLocMap' = MapInsert(funcLocMap, decl.name, decl.loc)
         /\ UNCHANGED <<foundStructs, structLocMap>>

\* name is *n for a typedef and decl.getNameAsString() otherwise
checkStruct_OnlyBeforeFunctions(decl, name) ==
    IF foundFuncs # EmptyMap
    THEN UNCHANGED <<foundFuncs, funcLocMap, foundStructs, structLocMap>>
    ELSE /\ foundStructs' = MapInsert(foundStructs, name, currentStruct(decl))
         /\ structLocMap' = MapInsert(structLocMap, name, decl.loc)
         /\ UNCHANGED <<foundFuncs, funcLocMap>>

checkStruct(decl, name) ==
    /\ foundStructs' = MapInsert(foundStructs, name, currentStruct(decl))
    /\ structLocMap' = MapInsert(structLocMap, name, decl.loc)
    /\ UNCHANGED <<foundFuncs, funcLocMap>>

\* decl.isRecord: getUnderlyingType()->getAsRecordDecl() is not null
checkTypedef(decl) ==
    IF ~decl.isRecord
    THEN UNCHANGED <<foundFuncs, funcLocMap, foundStructs, structLocMap>>
    ELSE checkStruct(decl, decl.name)

-----------------------------------------------------------------------------
(* Resolution: associateVar, resolveVar, resolveParams, resolveFunction *)

\* A line the resolution writes to llvm::errs().  fatal tells what a build with
\* LLVM's assertions and unchecked-Error detection does there: "no" nothing,
\* "after" it stops after the line (the llvm::Error written to the stream is
\* destroyed unhandled), "before" it stops before the line (an Expected was
\* built from Error::success()).  A build without them writes the line and goes on.
ResolveEvent(subject, fatal) == [line |-> ErrsLine("log", subject), fatal |-> fatal]

associateVar_KeepsMarkedNames(var, target, varMap) ==
    IF ~parseType(var).ok THEN [varMap |-> varMap, events |-> <<ResolveEvent(var, "after")>>]
    ELSE IF ~parseType(var).type.isVar
    THEN [varMap |-> varMap, events |-> <<ResolveEvent(var, "no")>>]
    ELSE IF parseType(var).type.pointers > 0
    THEN [varMap |-> varMap, events |-> <<ResolveEvent(var, "no")>>]
    ELSE [varMap |-> MapInsert(varMap, parseType(var).type.name, target),
          events |-> <<>>]

associateVar(var, target, varMap) ==
    IF ~parseType(var).ok THEN [varMap |-> varMap, events |-> <<ResolveEvent(var, "after")>>]
    ELSE IF parseType(var).type.isVar
    THEN [varMap |-> varMap, events |-> <<ResolveEvent(var, "no")>>]
    ELSE IF parseType(var).type.pointers > 0
    THEN [varMap |-> varMap, events |-> <<ResolveEvent(var, "no")>>]
    ELSE [varMap |-> MapInsert(varMap, parseType(var).type.name, target),
          events |-> <<>>]

\* st is "ok" (a value), "err" (an llvm::Error) or "success" (an Expected built
\* from the Error::success() that takeError() of a value gives).
Resolved(st, val) == [st |-> st, val |-> val]

resolveParsed_DropsPointers(maybeType, varMap) ==
    IF ~maybeType.ok THEN Resolved("err", <<>>)
    ELSE IF ~maybeType.type.isVar THEN Resolved("ok", maybeType.type.name)
    ELSE IF maybeType.type.name \notin DOMAIN varMap THEN Resolved("err", <<>>)
    ELSE Resolved("ok", toString(TypeInfo(FALSE, varMap[maybeType.type.name], 0)))

\* resolveVar once var is parsed
resolveParsed(maybeType, varMap) ==
    IF ~maybeType.ok THEN Resolved("err", <<>>)
    ELSE IF ~maybeType.type.isVar THEN Resolved("ok", maybeType.type.name)
    ELSE IF maybeType.type.name \notin DOMAIN varMap THEN Resolved("err", <<>>)
    ELSE Resolved("ok", toString(TypeInfo(FALSE, varMap[maybeType.type.name],
                                          maybeType.type.pointers)))

resolveVar(var, varMap) == resolveParsed(parseType(var), varMap)

\* The loop of resolveParams from keys[i] on.  A key that parses and does not
\* resolve returns maybeType.takeError(), the error of an Expected that holds
\* a value.
RECURSIVE resolveParamsFrom(_, _, _, _, _)
resolveParamsFrom(params, keys, i, varMap, ret) ==
    IF i > Len(keys) THEN Resolved("ok", ret)
    ELSE IF ~parseType(keys[i]).ok THEN Resolved("err", EmptyMap)
    ELSE IF resolveVar(keys[i], varMap).st # "ok" THEN Resolved("success", EmptyMap)
    ELSE resolveParamsFrom(params, keys, i + 1, varMap,
             MapInsert(ret, resolveVar(keys[i], varMap).val, params[keys[i]]))

resolveParams(params, varMap) ==
    resolveParamsFrom(params, SortedKeys(DOMAIN params), 1, varMap, EmptyMap)

\* resolveFunction once its two calls have returned
resolveFunctionOf(maybeParams, maybeRet) ==
    IF maybeParams.st # "ok" THEN Resolved(maybeParams.st, DefaultFuncDecl)
    ELSE IF maybeRet.st # "ok" THEN Resolved("err", DefaultFuncDecl)
    ELSE Resolved("ok", FuncDecl(maybeParams.val, maybeRet.val))

resolveFunction(params, varMap) ==
    resolveFunctionOf(resolveParams(params.pMap, varMap),
                      resolveVar(params.retType, varMap))

\* The inner loop of the binding: the found structs from fkeys[j] on, for the
\* template var.
RECURSIVE BindVar(_, _, _, _, _, _)
BindVar(d, fs, var, fkeys, j, acc) ==
    IF j > Len(fkeys) THEN acc
    ELSE IF d.varStructs[var] = fs[fkeys[j]]
         THEN BindVar(d, fs, var, fkeys, j + 1,
                  [varMap |-> associateVar(var, fkeys[j], acc.varMap).varMap,
                   events |-> acc.events
                                \o associateVar(var, fkeys[j], acc.varMap).events])
         ELSE BindVar(d, fs, var, fkeys, j + 1, acc)

\* The loop that binds the variable names to the found structs that match.
RECURSIVE BindVars(_, _, _, _, _, _)
BindVars(d, fs, vkeys, i, fkeys, acc) ==
    IF i > Len(vkeys) THEN acc
    ELSE BindVars(d, fs, vkeys, i + 1, fkeys,
                  BindVar(d, fs, vkeys[i], fkeys, 1, acc))

varMapOf(d, fs) ==
    BindVars(d, fs, SortedKeys(DOMAIN d.varStructs), 1, SortedKeys(DOMAIN fs),
             [varMap |-> EmptyMap, events |-> <<>>])

\* The local containers of onEndOfTranslationUnit before the five loops fill them.
Containers(b) ==
    [varMap |-> b.varMap, events |-> b.events,
     funcs |-> EmptyMap, structs |-> EmptyMap, unnamedFuncs |-> <<>>,
     unnamedStructs |-> <<>>, varStructs |-> EmptyMap]

\* "... skipped <subject>" for an entry that did not resolve
Skipped(c, subject, r) ==
    [c EXCEPT !.events =
        Append(@, ResolveEvent(subject, IF r.st = "success" THEN "before" ELSE "after"))]

AddFunc(c, name, r) ==
    IF r.st = "ok" THEN [c EXCEPT !.funcs = MapInsert(@, name, r.val)]
    ELSE Skipped(c, name, r)

AddStruct(c, name, r) ==
    IF r.st = "ok" THEN [c EXCEPT !.structs = MapInsert(@, name, r.val)]
    ELSE Skipped(c, name, r)

AddUnnamedFunc(c, func, r) ==
    IF r.st = "ok" THEN [c EXCEPT !.unnamedFuncs = Append(@, r.val)]
    ELSE Skipped(c, pretty(func), r)

AddUnnamedStruct(c, rec, r) ==
    IF r.st = "ok" THEN [c EXCEPT !.unnamedStructs = Append(@, r.val)]
    ELSE Skipped(c, prettyMapAsStruct(rec), r)

AddVarStruct_KeyedByTarget(c, name, r) ==
    IF r.st = "ok"
    THEN [c EXCEPT !.varStructs =
              MapInsert(@, IF name \in DOMAIN c.varMap THEN c.varMap[name] ELSE name,
                        r.val)]
    ELSE Skipped(c, name, r)

AddVarStruct(c, name, r) ==
    IF r.st = "ok" THEN [c EXCEPT !.varStructs = MapInsert(@, name, r.val)]
    ELSE Skipped(c, name, r)

\* for (const auto &func : decls.functions)
RECURSIVE resolveFuncs(_, _, _, _)
resolveFuncs(d, keys, i, c) ==
    IF i > Len(keys) THEN c
    ELSE resolveFuncs(d, keys, i + 1,
             AddFunc(c, keys[i], resolveFunction(d.functions[keys[i]], c.varMap)))

\* for (const auto &param : decls.structs)
RECURSIVE resolveStructs(_, _, _, _)
resolveStructs(d, keys, i, c) ==
    IF i > Len(keys) THEN c
    ELSE resolveStructs(d, keys, i + 1,
             AddStruct(c, keys[i], resolveParams(d.structs[keys[i]], c.varMap)))

\* for (const auto &func : decls.unnamedFunctions)
RECURSIVE resolveUnnamedFuncs(_, _, _)
resolveUnnamedFuncs(d, i, c) ==
    IF i > Len(d.unnamedFunctions) THEN c
    ELSE resolveUnnamedFuncs(d, i + 1,
             AddUnnamedFunc(c, d.unnamedFunctions[i],
                            resolveFunction(d.unnamedFunctions[i], c.varMap)))

\* for (const auto &rec : decls.unnamedStructs)
RECURSIVE resolveUnnamedStructs(_, _, _)
resolveUnnamedStructs(d, i, c) ==
    IF i > Len(d.unnamedStructs) THEN c
    ELSE resolveUnnamedStructs(d, i + 1,
             AddUnnamedStruct(c, d.unnamedStructs[i],
                              resolveParams(d.unnamedStructs[i], c.varMap)))

\* for (const auto &param : decls.varStructs)
RECURSIVE resolveVarStructs(_, _, _, _)
resolveVarStructs(d, keys, i, c) ==
    IF i > Len(keys) THEN c
    ELSE resolveVarStructs(d, keys, i + 1,
             AddVarStruct(c, keys[i], resolveParams(d.varStructs[keys[i]], c.varMap)))

\* The binding and the five local containers of onEndOfTranslationUnit after
\* resolution, with the lines written on the way.
resolveAll(d, fs) ==
    resolveVarStructs(d, SortedKeys(DOMAIN d.varStructs), 1,
      resolveUnnamedStructs(d, 1,
        resolveUnnamedFuncs(d, 1,
          resolveStructs(d, SortedKeys(DOMAIN d.structs), 1,
            resolveFuncs(d, SortedKeys(DOMAIN d.functions), 1,
              Containers(varMapOf(d, fs)))))))

-----------------------------------------------------------------------------
(* Matching and the report: the second half of onEndOfTranslationUnit *)

\* std::find(v.begin(), v.end(), x): the index found, 0 for end()
FindFirst(v, x) ==
    IF \E i \in 1..Len(v) : v[i] = x
    THEN CHOOSE i \in 1..Len(v) : v[i] = x /\ \A j \in 1..(i - 1) : v[j] # x
    ELSE 0

\* v.erase(it) for the iterator at index i
EraseAt(v, i) == SubSeq(v, 1, i - 1) \o SubSeq(v, i + 1, Len(v))

\* it = std::find(v.begin(), v.end(), x); if (it != v.end()) v.erase(it);
EraseFound(v, x) == IF FindFirst(v, x) # 0 THEN EraseAt(v, FindFirst(v, x)) ELSE v

EraseEvery(v, x) == SelectSeq(v, LAMBDA e : e # x)

\* std::find_if over varStructs for a value equal to shape: the keys that hold one
VarRecs(varStructs, shape) == {k \in DOMAIN varStructs : varStructs[k] = shape}

Mismatch(loc, expected, got) == Emit("diag", "mismatch", loc, expected, got)

\* if (func.second != maybeNamedFunc->second) diag(...) << pretty << pretty;
DiagFunc(st, name, ff, flm) ==
    IF ff[name] # st.funcs[name]
    THEN [st EXCEPT !.out = Append(@, Mismatch(flm[name], pretty(st.funcs[name]),
                                               pretty(ff[name])))]
    ELSE st

\* funcs.erase(maybeNamedFunc);
EraseFunc(st, name) == [st EXCEPT !.funcs = MapErase(@, name)]

\* The body of the loop over foundFuncs, for the entry at name.
MatchFunc_KeepsMismatched(st, name, ff, flm) ==
    IF name \in DOMAIN st.funcs
    THEN IF ff[name] # st.funcs[name] THEN DiagFunc(st, name, ff, flm)
         ELSE EraseFunc(st, name)
    ELSE [st EXCEPT !.unnamedFuncs = EraseFound(@, ff[name])]

MatchFunc_ErasesEveryEqual(st, name, ff, flm) ==
    IF name \in DOMAIN st.funcs
    THEN EraseFunc(DiagFunc(st, name, ff, flm), name)
    ELSE [st EXCEPT !.unnamedFuncs = EraseEvery(@, ff[name])]

MatchFunc(st, name, ff, flm) ==
    IF name \in DOMAIN st.funcs
    THEN EraseFunc(DiagFunc(st, name, ff, flm), name)
    ELSE [st EXCEPT !.unnamedFuncs = EraseFound(@, ff[name])]

MatchRecord_NamedAlsoTakesTemplate(st, name, fs, flm, deref) ==
    IF st.aborted THEN st
    ELSE IF name \in DOMAIN st.structs
    THEN IF fs[name] # st.structs[name]
         THEN IF name \notin DOMAIN flm /\ deref.abort
              THEN [st EXCEPT !.aborted = TRUE]
              ELSE [st EXCEPT
                      !.out = Append(@, Mismatch(IF name \in DOMAIN flm THEN flm[name]
                                                 ELSE deref.loc,
                                                 prettyMapAsStruct(st.structs[name]),
                                                 prettyMapAsStruct(fs[name]))),
                      !.structs = MapErase(@, name)]
         ELSE IF VarRecs(st.varStructs, fs[name]) # {}
         THEN [st EXCEPT !.structs = MapErase(@, name),
                         !.varStructs =
                             MapErase(@, SortedKeys(VarRecs(st.varStructs, fs[name]))[1])]
         ELSE [st EXCEPT !.structs = MapErase(@, name)]
    ELSE IF VarRecs(st.varStructs, fs[name]) # {}
    THEN [st EXCEPT !.varStructs =
              MapErase(@, SortedKeys(VarRecs(st.varStructs, fs[name]))[1])]
    ELSE [st EXCEPT !.unnamedStructs = EraseFound(@, fs[name])]

MatchRecord_AlsoErasesUnnamed(st, name, fs, flm, deref) ==
    IF st.aborted THEN st
    ELSE IF name \in DOMAIN st.structs
    THEN IF fs[name] # st.structs[name]
         THEN IF name \notin DOMAIN flm /\ deref.abort
              THEN [st EXCEPT !.aborted = TRUE]
              ELSE [st EXCEPT
                      !.out = Append(@, Mismatch(IF name \in DOMAIN flm THEN flm[name]
                                                 ELSE deref.loc,
                                                 prettyMapAsStruct(st.structs[name]),
                                                 prettyMapAsStruct(fs[name]))),
                      !.structs = MapErase(@, name)]
         ELSE [st EXCEPT !.structs = MapErase(@, name)]
    ELSE IF VarRecs(st.varStructs, fs[name]) # {}
    THEN [st EXCEPT !.varStructs =
              MapErase(@, SortedKeys(VarRecs(st.varStructs, fs[name]))[1]),
                    !.unnamedStructs = EraseFound(@, fs[name])]
    ELSE [st EXCEPT !.unnamedStructs = EraseFound(@, fs[name])]

\* The body of the loop over foundStructs, for the entry at name.  The location
\* of the diagnostic is funcLocMap.find(name)->second: when no function has the
\* record's name, find() gives end() and reading through it is undefined; deref
\* is what that read does (it stops the program, or it yields some location).
MatchRecord(st, name, fs, flm, deref) ==
    IF st.aborted THEN st
    ELSE IF name \in DOMAIN st.structs
    THEN IF fs[name] # st.structs[name]
         THEN IF name \notin DOMAIN flm /\ deref.abort
              THEN [st EXCEPT !.aborted = TRUE]
              ELSE [st EXCEPT
                      !.out = Append(@, Mismatch(IF name \in DOMAIN flm THEN flm[name]
                                                 ELSE deref.loc,
                                                 prettyMapAsStruct(st.structs[name]),
                                                 prettyMapAsStruct(fs[name]))),
                      !.structs = MapErase(@, name)]
         ELSE [st EXCEPT !.structs = MapErase(@, name)]
    ELSE IF VarRecs(st.varStructs, fs[name]) # {}
    THEN [st EXCEPT !.varStructs =
              MapErase(@, SortedKeys(VarRecs(st.varStructs, fs[name]))[1])]
    ELSE [st EXCEPT !.unnamedStructs = EraseFound(@, fs[name])]

RECURSIVE MatchFuncs(_, _, _, _, _)
MatchFuncs(st, keys, i, ff, flm) ==
    IF i > Len(keys) THEN st
    ELSE MatchFuncs(MatchFunc(st, keys[i], ff, flm), keys, i + 1, ff, flm)

RECURSIVE MatchRecords(_, _, _, _, _, _)
MatchRecords(st, keys, i, fs, flm, deref) ==
    IF i > Len(keys) THEN st
    ELSE MatchRecords(MatchRecord(st, keys[i], fs, flm, deref), keys, i + 1,
                      fs, flm, deref)

Header(text) == ErrsLine("header", <<text>>)

RECURSIVE NameLines(_, _)
NameLines(keys, i) ==
    IF i > Len(keys) THEN <<>>
    ELSE <<ErrsLine("item", keys[i])>> \o NameLines(keys, i + 1)

Report_VariableStructsFirst(st) ==
    (IF DOMAIN st.varStructs # {}
     THEN <<Header("MISSING VARIABLE STRUCT(s):")>>
            \o NameLines(SortedKeys(DOMAIN st.varStructs), 1) ELSE <<>>)
    \o (IF DOMAIN st.funcs # {}
        THEN <<Header("MISSING NAMED FUNCTION(s):")>>
               \o NameLines(SortedKeys(DOMAIN st.funcs), 1) ELSE <<>>)
    \o (IF DOMAIN st.structs # {}
        THEN <<Header("MISSING NAMED STRUCT(s):")>>
               \o NameLines(SortedKeys(DOMAIN st.structs), 1) ELSE <<>>)
    \o (IF st.unnamedFuncs # <<>>
        THEN <<Header("MISSING UNNAMED FUNCTION(s):")>>
               \o [i \in 1..Len(st.unnamedFuncs) |->
                     ErrsLine("item", pretty(st.unnamedFuncs[i]))] ELSE <<>>)
    \o (IF st.unnamedStructs # <<>>
        THEN <<Header("MISSING UNNAMED STRUCT(s):")>>
               \o [i \in 1..Len(st.unnamedStructs) |->
                     ErrsLine("item", prettyMapAsStruct(st.unnamedStructs[i]))]
        ELSE <<>>)

\* The five "MISSING ..." sections, each printed when its container is not empty.
Report(st) ==
    (IF DOMAIN st.funcs # {}
     THEN <<Header("MISSING NAMED FUNCTION(s):")>>
            \o NameLines(SortedKeys(DOMAIN st.funcs), 1) ELSE <<>>)
    \o (IF DOMAIN st.structs # {}
        THEN <<Header("MISSING NAMED STRUCT(s):")>>
               \o NameLines(SortedKeys(DOMAIN st.structs), 1) ELSE <<>>)
    \o (IF st.unnamedFuncs # <<>>
        THEN <<Header("MISSING UNNAMED FUNCTION(s):")>>
               \o [i \in 1..Len(st.unnamedFuncs) |->
                     ErrsLine("item", pretty(st.unnamedFuncs[i]))] ELSE <<>>)
    \o (IF st.unnamedStructs # <<>>
        THEN <<Header("MISSING UNNAMED STRUCT(s):")>>
               \o [i \in 1..Len(st.unnamedStructs) |->
                     ErrsLine("item", prettyMapAsStruct(st.unnamedStructs[i]))]
        ELSE <<>>)
    \o (IF DOMAIN st.varStructs # {}
        THEN <<Header("MISSING VARIABLE STRUCT(s):")>>
               \o NameLines(SortedKeys(DOMAIN st.varStructs), 1) ELSE <<>>)

Leftover(st) ==
    [functions |-> st.funcs, structs |-> st.structs,
     unnamedFunctions |-> st.unnamedFuncs, unnamedStructs |-> st.unnamedStructs,
     varStructs |-> st.varStructs]

NoLeftover ==
    [functions |-> EmptyMap, structs |-> EmptyMap, unnamedFunctions |-> <<>>,
     unnamedStructs |-> <<>>, varStructs |-> EmptyMap]

\* The lines of the resolution as a build without assertions writes them.
EventLines(events) == [i \in 1..Len(events) |-> events[i].line]

FirstFatal(events) ==
    CHOOSE i \in 1..Len(events) :
        events[i].fatal # "no" /\ \A j \in 1..(i - 1) : events[j].fatal = "no"

\* The lines written before a build with assertions stops at the first fatal one.
LinesUntilFatal(events) ==
    [i \in 1..(IF events[FirstFatal(events)].fatal = "before"
               THEN FirstFatal(events) - 1 ELSE FirstFatal(events)) |-> events[i].line]

\* The containers as the two loops start on them.
MatchStart(r) ==
    [funcs |-> r.funcs, structs |-> r.structs,
     unnamedFuncs |-> r.unnamedFuncs, unnamedStructs |-> r.unnamedStructs,
     varStructs |-> r.varStructs, out |-> EventLines(r.events), aborted |-> FALSE]

\* The end of the handler: the report, unless the program has stopped.
Finish(st) ==
    IF st.aborted
    THEN [pc |-> "aborted", out |-> st.out, leftover |-> NoLeftover]
    ELSE [pc |-> "done", out |-> st.out \o Report(st), leftover |-> Leftover(st)]

matchAll_RecordsFirst(r, ff, flm, fs, deref) ==
    Finish(MatchFuncs(MatchRecords(MatchStart(r), SortedKeys(DOMAIN fs), 1, fs, flm, deref),
                      SortedKeys(DOMAIN ff), 1, ff, flm))

\* The two loops and the report, from the resolved containers r.
matchAll(r, ff, flm, fs, deref) ==
    Finish(MatchRecords(MatchFuncs(MatchStart(r), SortedKeys(DOMAIN ff), 1, ff, flm),
                        SortedKeys(DOMAIN fs), 1, fs, flm, deref))

-----------------------------------------------------------------------------
(* The inputs: declaration files and the declarations of a translation unit *)

s_int == <<"i","n","t">>
s_char == <<"c","h","a","r">>
s_void == <<"v","o","i","d">>
s_Point == <<"P","o","i","n","t">>
s_T == <<"T">>
s_pctT == <<"%","T">>
s_pctU == <<"%","U">>
s_f == <<"f">>
s_foo == <<"f","o","o">>
s_bar == <<"b","a","r">>
s_S == <<"S">>
s_R == <<"R">>
s_Q == <<"Q">>
s_myint == <<"m","y","i","n","t">>

\* A JSON object with "params" and "return"
FuncObj(name, params, ret) ==
    [name |-> name, has |-> {"params", "return"}, params |-> params, ret |-> ret]

\* A JSON object with "params" alone
FuncObjNoReturn(name, params) ==
    [name |-> name, has |-> {"params"}, params |-> params, ret |-> <<>>]

Member(name, members) == [name |-> name, members |-> members]

DeclFile(has, functions, structs, unnamedFunctions, unnamedStructs, varStructs) ==
    [kind |-> "json", has |-> has, functions |-> functions, structs |-> structs,
     unnamedFunctions |-> unnamedFunctions, unnamedStructs |-> unnamedStructs,
     varStructs |-> varStructs]

\* DeclFile is empty: the option is not set
DeclFileNotSet == [DeclFile({}, <<>>, <<>>, <<>>, <<>>, <<>>) EXCEPT !.kind = "none"]

\* the file cannot be opened, or is not JSON
DeclFileUnreadable ==
    [DeclFile({}, <<>>, <<>>, <<>>, <<>>, <<>>) EXCEPT !.kind = "unreadable"]

DeclFileNamed ==
    DeclFile({"functions", "structs", "functions*", "structs*"},
             <<FuncObj(s_foo, (s_int :> 1), s_int), FuncObj(mainName, EmptyMap, s_int)>>,
             <<Member(s_S, (s_char :> 1))>>,
             <<FuncObj(<<>>, (s_int :> 1), s_int)>>,
             <<(s_char :> 1), (s_char :> 1)>>,
             <<>>)

DeclFileUnnamed ==
    DeclFile({"functions*", "structs*"},
             <<>>, <<>>,
             <<FuncObj(<<>>, (s_int :> 1), s_int), FuncObj(<<>>, (s_int :> 1), s_int)>>,
             <<(s_char :> 1), (s_char :> 1)>>,
             <<>>)

\* the template is named with the marker: "%structs": {"%T": {"int": 1}}
DeclFileMarkedVar ==
    DeclFile({"functions", "%structs"},
             <<FuncObj(s_f, (s_pctT :> 1), s_void)>>, <<>>, <<>>, <<>>,
             <<Member(s_pctT, (s_int :> 1))>>)

\* the template is named without it: "%structs": {"T": {"int": 1}}
DeclFileVar ==
    DeclFile({"functions", "%structs"},
             <<FuncObj(s_f, (s_pctT :> 1), s_void)>>, <<>>, <<>>, <<>>,
             <<Member(s_T, (s_int :> 1))>>)

\* f and main refer to %U, which no template binds
DeclFileUnbound ==
    DeclFile({"functions", "structs", "structs*"},
             <<FuncObj(s_f, (s_pctU :> 1), s_void), FuncObj(s_foo, (s_int :> 1), s_int),
               FuncObj(mainName, EmptyMap, s_pctU)>>,
             <<Member(s_S, (s_char :> 1))>>,
             <<>>,
             <<(s_char :> 1)>>,
             <<>>)

\* DeclFileUnbound without the entries that refer to %U
DeclFileUnboundWithout ==
    DeclFile({"functions", "structs", "structs*"},
             <<FuncObj(s_foo, (s_int :> 1), s_int)>>,
             <<Member(s_S, (s_char :> 1))>>,
             <<>>,
             <<(s_char :> 1)>>,
             <<>>)

\* the object at functions.foo omits "return"
DeclFileNoReturn ==
    DeclFile({"functions", "structs"},
             <<FuncObj(s_bar, (s_int :> 1), s_int), FuncObjNoReturn(s_foo, (s_int :> 1))>>,
             <<Member(s_S, (s_char :> 1))>>,
             <<>>, <<>>, <<>>)

\* two named functions, neither as the unit declares it
DeclFileTwoFuncs ==
    DeclFile({"functions"},
             <<FuncObj(s_bar, (s_char :> 1), s_int), FuncObj(s_foo, (s_char :> 1), s_int)>>,
             <<>>, <<>>, <<>>, <<>>)

\* a named record, an anonymous record and a template of one shape
DeclFileSameShape ==
    DeclFile({"structs", "structs*", "%structs"},
             <<>>,
             <<Member(s_S, (s_char :> 1))>>,
             <<>>,
             <<(s_char :> 1)>>,
             <<Member(s_T, (s_char :> 1))>>)

\* f takes a pointer and a pointer to a pointer to the template's record and
\* returns the record
DeclFilePointers ==
    DeclFile({"functions", "%structs"},
             <<FuncObj(s_f, (s_pctT \o <<" ", "*">> :> 1) @@ (s_pctT \o <<" ", "*", "*">> :> 2),
                       s_pctT)>>,
             <<>>, <<>>, <<>>,
             <<Member(s_T, (s_int :> 1))>>)

\* bar has a parameter type that is no type: "1x"
DeclFileBadType ==
    DeclFile({"functions", "structs", "structs*"},
             <<FuncObj(s_bar, (<<"1", "x">> :> 1), s_int), FuncObj(s_foo, (s_int :> 1), s_int)>>,
             <<Member(s_S, (s_char :> 1))>>,
             <<>>,
             <<(s_char :> 1)>>,
             <<>>)

\* DeclFileBadType without bar
DeclFileBadTypeWithout ==
    DeclFile({"functions", "structs", "structs*"},
             <<FuncObj(s_foo, (s_int :> 1), s_int)>>,
             <<Member(s_S, (s_char :> 1))>>,
             <<>>,
             <<(s_char :> 1)>>,
             <<>>)

\* g takes a pointer to int; h takes the template's record twice, once through
\* the placeholder and once by name
DeclFileResolve ==
    DeclFile({"functions", "%structs"},
             <<FuncObj(<<"g">>, (s_int \o <<" ", "*">> :> 1), s_void),
               FuncObj(<<"h">>, (s_pctT :> 1) @@ (s_Point :> 1), s_void)>>,
             <<>>, <<>>, <<>>,
             <<Member(s_T, (s_int :> 1))>>)

DeclFiles ==
    {DeclFileNotSet, DeclFileUnreadable, DeclFileNamed, DeclFileUnnamed,
     DeclFileMarkedVar, DeclFileVar, DeclFileUnbound, DeclFileNoReturn,
     DeclFileTwoFuncs, DeclFileSameShape, DeclFilePointers, DeclFileBadType,
     DeclFileResolve}

Decl(kind, name, types, ret, isRecord) ==
    [kind |-> kind, name |-> name, types |-> types, ret |-> ret,
     isRecord |-> isRecord, loc |-> 0]

\* The declarations a unit is made of, in source order; a unit holds some of
\* them, and a declaration's location is its place here.
SourceDecls ==
    << Decl("struct", s_S, <<>>, <<>>, TRUE),                       \* struct S;
       Decl("struct", s_Point, <<s_int>>, <<>>, TRUE),              \* struct Point { int x; };
       Decl("fun", s_f, <<structPrefix \o s_Point>>, s_void, FALSE),\* void f(struct Point p);
       Decl("fun", s_foo, <<s_int>>, s_int, FALSE),                 \* int foo(int a);
       Decl("fun", s_foo, <<s_int, s_char>>, s_int, FALSE),         \* int foo(int a, char b);
       Decl("fun", s_bar, <<s_int>>, s_int, FALSE),                 \* int bar(int a);
       Decl("fun", mainName, <<>>, s_int, FALSE),                   \* int main(void);
       Decl("struct", s_S, <<s_char>>, <<>>, TRUE),                 \* struct S { char c; };
       Decl("struct", s_R, <<s_char>>, <<>>, TRUE),                 \* struct R { char c; };
       Decl("typedef", s_Q, <<s_char>>, <<>>, TRUE),                \* typedef struct { char c; } Q;
       Decl("typedef", s_myint, <<>>, <<>>, FALSE),                 \* typedef int myint;
       Decl("fun", <<"g">>, <<s_int \o <<" ", "*">>>>, s_void, FALSE) >> \* void g(int *p);

NumDecls == Len(SourceDecls)

DeclAt(l) == [SourceDecls[l] EXCEPT !.loc = l]

\* At most MaxObs declarations of a unit reach check().
MaxObs == 4

-----------------------------------------------------------------------------
(* The pass *)

PassInit ==
    /\ pc = "start"
    /\ decls = EmptyDeclarations
    /\ foundFuncs = EmptyMap
    /\ funcLocMap = EmptyMap
    /\ foundStructs = EmptyMap
    /\ structLocMap = EmptyMap
    /\ lastLoc = 0
    /\ visited = 0
    /\ units = <<<<>>>>
    /\ out = <<>>
    /\ leftover = NoLeftover

ParseIdle ==
    /\ ppc = "idle"
    /\ str = <<>>
    /\ ti = TypeInfo(FALSE, <<>>, 0)
    /\ res = ParseOk(TypeInfo(FALSE, <<>>, 0))

Init == config \in DeclFiles /\ PassInit /\ ParseIdle

LoadError == ErrsLine("log", <<"Declarations: ">>)

OpenError == ErrsLine("log", <<"Error opening json file">>)

registerMatchers_AddsMatchersAnyway ==
    /\ pc = "start"
    /\ IF config.kind = "none"
       THEN pc' = "unregistered" /\ UNCHANGED <<decls, out>>
       ELSE IF config.kind = "unreadable"
       THEN pc' = "exited" /\ out' = Append(out, OpenError) /\ UNCHANGED decls
       ELSE LET r == fromJSON_Declarations(config, decls)
            IN  /\ decls' = r.out
                /\ pc' = "observing"
                /\ out' = IF r.ok THEN out ELSE Append(out, LoadError)
    /\ UNCHANGED <<config, foundFuncs, funcLocMap, foundStructs, structLocMap,
                   lastLoc, visited, units, leftover, parseVars>>

\* registerMatchers: the matchers are added when the file was loaded; without
\* them neither check() nor onEndOfTranslationUnit() is called.
registerMatchers ==
    /\ pc = "start"
    /\ IF config.kind = "none"
       THEN pc' = "unregistered" /\ UNCHANGED <<decls, out>>
       ELSE IF config.kind = "unreadable"
       THEN pc' = "exited" /\ out' = Append(out, OpenError) /\ UNCHANGED decls
       ELSE LET r == fromJSON_Declarations(config, decls)
            IN  /\ decls' = r.out
                /\ IF r.ok
                   THEN pc' = "observing" /\ UNCHANGED out
                   ELSE pc' = "unregistered" /\ out' = Append(out, LoadError)
    /\ UNCHANGED <<config, foundFuncs, funcLocMap, foundStructs, structLocMap,
                   lastLoc, visited, units, leftover, parseVars>>

\* The node bound in Result is a function, a record or a typedef.
checkDecl(decl) ==
    IF decl.kind = "fun" THEN checkFun(decl)
    ELSE IF decl.kind = "struct" THEN checkStruct(decl, decl.name)
    ELSE checkTypedef(decl)

\* check(Result) for the declaration at location l of the unit
check(l) ==
    /\ pc = "observing"
    /\ l > lastLoc
    /\ visited < MaxObs
    /\ checkDecl(DeclAt(l))
    /\ lastLoc' = l
    /\ visited' = visited + 1
    /\ units' = [units EXCEPT ![Len(units)] = Append(@, l)]
    /\ UNCHANGED <<config, pc, decls, out, leftover, parseVars>>

\* What reading funcLocMap.end()->second can do
NoDeref == [abort |-> FALSE, loc |-> 0]

DerefOutcomes ==
    {[abort |-> TRUE, loc |-> 0]} \cup {[abort |-> FALSE, loc |-> l] : l \in 0..NumDecls}

\* some found struct is diagnosed and no function has its name
ReadsEnd(r, fs, flm) ==
    \E n \in DOMAIN fs : n \in DOMAIN r.structs /\ fs[n] # r.structs[n] /\ n \notin DOMAIN flm

HasFatal(events) == \E i \in 1..Len(events) : events[i].fatal # "no"

\* Every way onEndOfTranslationUnit can end, from the resolved containers r.
EndOutcomesOf(r, ff, flm, fs) ==
    (IF HasFatal(r.events)
     THEN {[pc |-> "aborted", out |-> LinesUntilFatal(r.events),
            leftover |-> NoLeftover]}
     ELSE {})
    \cup {matchAll(r, ff, flm, fs, deref) :
            deref \in IF ReadsEnd(r, fs, flm) THEN DerefOutcomes ELSE {NoDeref}}

EndOutcomes(d, ff, flm, fs) == EndOutcomesOf(resolveAll(d, fs), ff, flm, fs)

onEndOfTranslationUnit ==
    /\ pc = "observing"
    /\ \E o \in EndOutcomes(decls, foundFuncs, funcLocMap, foundStructs) :
          /\ pc' = o.pc
          /\ out' = out \o o.out
          /\ leftover' = o.leftover
    /\ UNCHANGED <<config, decls, foundFuncs, funcLocMap, foundStructs, structLocMap,
                   lastLoc, visited, units, parseVars>>

\* The unit is traversed with no matcher added: no callback of the check runs.
TraverseUnregistered ==
    /\ pc = "unregistered"
    /\ pc' = "skipped"
    /\ UNCHANGED <<config, decls, foundFuncs, funcLocMap, foundStructs, structLocMap,
                   lastLoc, visited, units, out, leftover, parseVars>>

\* Units that hold declarations of SourceDecls with names of their own, in any
\* order: at most MaxOrder of those at OrderDecls.
OrderDecls == {2, 3, 4, 6, 8, 9, 10}

MaxOrder == 3

CurrentUnit == units[Len(units)]

\* check(Result) for the declaration SourceDecls[d], which stands next in the unit
checkAt(d) ==
    /\ pc = "observing"
    /\ visited < MaxOrder
    /\ \A i \in 1..Len(CurrentUnit) : CurrentUnit[i] # d
    /\ checkDecl([SourceDecls[d] EXCEPT !.loc = visited + 1])
    /\ lastLoc' = visited + 1
    /\ visited' = visited + 1
    /\ units' = [units EXCEPT ![Len(units)] = Append(@, d)]
    /\ UNCHANGED <<config, pc, decls, out, leftover, parseVars>>

NextAnyOrder ==
    \/ registerMatchers
    \/ \E d \in OrderDecls : checkAt(d)
    \/ onEndOfTranslationUnit
    \/ TraverseUnregistered

SpecAnyOrder == Init /\ [][NextAnyOrder]_vars

\* A process that checks several units takes at most MaxUnits of them, each
\* made of declarations at PassDecls.
MaxUnits == 2

PassDecls == {4, 5, 8}

\* The tool goes on to the next translation unit in the same process: the
\* check is set up anew, and the variables at namespace scope (decls,
\* foundFuncs, funcLocMap, foundStructs, structLocMap) are what they were.
nextUnit ==
    /\ pc \in {"done", "skipped"}
    /\ Len(units) < MaxUnits
    /\ pc' = "start"
    /\ lastLoc' = 0
    /\ visited' = 0
    /\ units' = Append(units, <<>>)
    /\ out' = <<>>
    /\ leftover' = NoLeftover
    /\ UNCHANGED <<config, decls, foundFuncs, funcLocMap, foundStructs, structLocMap,
                   parseVars>>

NextTwoPasses ==
    \/ registerMatchers
    \/ \E l \in PassDecls : check(l)
    \/ onEndOfTranslationUnit
    \/ TraverseUnregistered
    \/ nextUnit

SpecTwoPasses == Init /\ [][NextTwoPasses]_vars

\* The first element of the vector v that std::count finds among the values
\* of the map named (0: none)
FirstCounted(v, named) ==
    IF \E i \in 1..Len(v) : \E k \in DOMAIN named : named[k] = v[i]
    THEN CHOOSE i \in 1..Len(v) :
             /\ \E k \in DOMAIN named : named[k] = v[i]
             /\ \A j \in 1..(i - 1) : \A k \in DOMAIN named : named[k] # v[j]
    ELSE 0

NoOverlap == [exit |-> FALSE, line |-> ErrsLine("log", <<>>)]

Overlap(what, text) ==
    [exit |-> TRUE,
     line |-> ErrsLine("log", <<what>> \o text \o <<" has a named counterpart">>)]

checkOverlappingDefinitions_FunctionsOnly(d) ==
    IF FirstCounted(d.unnamedFunctions, d.functions) # 0
    THEN Overlap("Unnamed function declaration ",
                 pretty(d.unnamedFunctions[FirstCounted(d.unnamedFunctions, d.functions)]))
    ELSE NoOverlap

\* checkOverlappingDefinitions on the catalog d: the line it writes before
\* exit(EXIT_FAILURE), or no exit.
checkOverlappingDefinitions(d) ==
    IF FirstCounted(d.unnamedFunctions, d.functions) # 0
    THEN Overlap("Unnamed function declaration ",
                 pretty(d.unnamedFunctions[FirstCounted(d.unnamedFunctions, d.functions)]))
    ELSE IF FirstCounted(d.unnamedStructs, d.structs) # 0
    THEN Overlap("Unnamed struct declaration ",
                 prettyMapAsStruct(
                     d.unnamedStructs[FirstCounted(d.unnamedStructs, d.structs)]))
    ELSE NoOverlap

\* The end of registerMatchers with the check enabled, on the loaded catalog d
\* and what the check of it gave.
registerChecked(d, o) ==
    /\ decls' = d
    /\ IF o.exit
       THEN pc' = "exited" /\ out' = Append(out, o.line)
       ELSE pc' = "observing" /\ UNCHANGED out

\* registerMatchers with the call of checkOverlappingDefinitions enabled
\* between the load and the matchers.
registerMatchersChecked ==
    /\ pc = "start"
    /\ IF config.kind = "none"
       THEN pc' = "unregistered" /\ UNCHANGED <<decls, out>>
       ELSE IF config.kind = "unreadable"
       THEN pc' = "exited" /\ out' = Append(out, OpenError) /\ UNCHANGED decls
       ELSE IF fromJSON_Declarations(config, decls).ok
       THEN registerChecked(fromJSON_Declarations(config, decls).out,
                checkOverlappingDefinitions(fromJSON_Declarations(config, decls).out))
       ELSE /\ decls' = fromJSON_Declarations(config, decls).out
            /\ pc' = "unregistered"
            /\ out' = Append(out, LoadError)
    /\ UNCHANGED <<config, foundFuncs, funcLocMap, foundStructs, structLocMap,
                   lastLoc, visited, units, leftover, parseVars>>

NextOverlap ==
    \/ registerMatchersChecked
    \/ \E l \in 1..NumDecls : check(l)
    \/ onEndOfTranslationUnit
    \/ TraverseUnregistered

SpecOverlap == Init /\ [][NextOverlap]_vars

Next ==
    \/ registerMatchers
    \/ \E l \in 1..NumDecls : check(l)
    \/ onEndOfTranslationUnit
    \/ TraverseUnregistered

Spec == Init /\ [][Next]_vars

-----------------------------------------------------------------------------
(* Properties of the pass *)

\* The local containers the end of the unit resolves from the current globals.
ResolvedNow == resolveAll(decls, foundStructs)

MismatchItems(o) == {i \in 1..Len(o) : o[i].kind = "mismatch"}

ReportItems(o) == {i \in 1..Len(o) : o[i].kind \in {"header", "item"}}

\* The header of the section the report line i stands in.
SectionOf(o, i) ==
    o[CHOOSE h \in 1..i : o[h].kind = "header"
                          /\ \A k \in (h + 1)..i : o[k].kind # "header"].a

\* The report lines with text a under the header text.
Listed(o, text, a) ==
    {i \in 1..Len(o) : o[i].kind = "item" /\ o[i].a = a /\ SectionOf(o, i) = <<text>>}

\* The observed functions and records that have a resolved named entry of
\* another signature or shape.
DifferingFuncs ==
    {n \in DOMAIN foundFuncs \cap DOMAIN ResolvedNow.funcs :
        foundFuncs[n] # ResolvedNow.funcs[n]}

DifferingRecords ==
    {n \in DOMAIN foundStructs \cap DOMAIN ResolvedNow.structs :
        foundStructs[n] # ResolvedNow.structs[n]}

\* C1: once matching has run, the mismatch diagnostics are exactly those of
\* the observed functions and records whose name is a key of the resolved
\* named catalog and whose signature or shape differs from the expected one,
\* each with the expected and the observed pretty-printed forms; no other
\* observed declaration has one.
C1_DiagnosticIffNamedAndDiffers ==
    (pc \in {"done", "aborted"} /\ ~HasFatal(ResolvedNow.events)) =>
        /\ {<<out[i].a, out[i].b>> : i \in MismatchItems(out)}
             = {<<pretty(ResolvedNow.funcs[n]), pretty(foundFuncs[n])>> :
                    n \in DifferingFuncs}
               \cup {<<prettyMapAsStruct(ResolvedNow.structs[n]),
                       prettyMapAsStruct(foundStructs[n])>> : n \in DifferingRecords}
        /\ Cardinality(MismatchItems(out))
             = Cardinality(DifferingFuncs) + Cardinality(DifferingRecords)

\* C2: in the final report a resolved named function or record is listed as
\* missing if and only if no observation of its kind is recorded under its
\* name; a name that was observed is not listed, whether or not the shapes agree.
C2_MissingIffNameNotObserved ==
    pc = "done" =>
        /\ \A n \in DOMAIN ResolvedNow.funcs :
              Listed(out, "MISSING NAMED FUNCTION(s):", n) # {}
                  <=> n \notin DOMAIN foundFuncs
        /\ \A n \in DOMAIN ResolvedNow.structs :
              Listed(out, "MISSING NAMED STRUCT(s):", n) # {}
                  <=> n \notin DOMAIN foundStructs
        /\ DOMAIN leftover.functions = DOMAIN ResolvedNow.funcs \ DOMAIN foundFuncs
        /\ DOMAIN leftover.structs = DOMAIN ResolvedNow.structs \ DOMAIN foundStructs

\* foo was observed with another signature than the expected one: it has its
\* diagnostic and is not listed, while main, not observed, is.
C2_Witness ==
    /\ pc = "done"
    /\ config = DeclFileNamed
    /\ s_foo \in DifferingFuncs
    /\ MismatchItems(out) # {}
    /\ Listed(out, "MISSING NAMED FUNCTION(s):", s_foo) = {}
    /\ Listed(out, "MISSING NAMED FUNCTION(s):", mainName) # {}

Count(v, x) == Cardinality({i \in 1..Len(v) : v[i] = x})

Monus(k, m) == IF k > m THEN k - m ELSE 0

\* The observed functions of signature S that reach the unnamed search
FuncsSearching(S) ==
    {n \in DOMAIN foundFuncs : n \notin DOMAIN ResolvedNow.funcs /\ foundFuncs[n] = S}

\* The observed records of shape S without a named entry
RecordsUnnamed(S) ==
    {n \in DOMAIN foundStructs :
        n \notin DOMAIN ResolvedNow.structs /\ foundStructs[n] = S}

\* How many of them reach the unnamed search: the placeholder templates of
\* shape S take one each first.
RecordsSearching(S) ==
    Monus(Cardinality(RecordsUnnamed(S)),
          Cardinality(VarRecs(ResolvedNow.varStructs, S)))

\* C3: when the resolved unnamed list holds k entries equal to S and m observed
\* declarations of shape S reach the unnamed search, max(0, k - m) entries
\* equal to S are in the missing report.
C3_UnnamedConsumesOneEach ==
    pc = "done" =>
        /\ \A i \in 1..Len(ResolvedNow.unnamedFuncs) :
              LET S == ResolvedNow.unnamedFuncs[i]
              IN  /\ Count(leftover.unnamedFunctions, S)
                       = Monus(Count(ResolvedNow.unnamedFuncs, S),
                               Cardinality(FuncsSearching(S)))
                  /\ Cardinality(Listed(out, "MISSING UNNAMED FUNCTION(s):", pretty(S)))
                       = Count(leftover.unnamedFunctions, S)
        /\ \A i \in 1..Len(ResolvedNow.unnamedStructs) :
              LET S == ResolvedNow.unnamedStructs[i]
              IN  /\ Count(leftover.unnamedStructs, S)
                       = Monus(Count(ResolvedNow.unnamedStructs, S), RecordsSearching(S))
                  /\ Cardinality(Listed(out, "MISSING UNNAMED STRUCT(s):",
                                        prettyMapAsStruct(S)))
                       = Count(leftover.unnamedStructs, S)

\* Two identical anonymous records { char: 1 } were expected and one record of
\* that shape was observed: one is listed as missing.
C3_Witness ==
    /\ pc = "done"
    /\ config = DeclFileUnnamed
    /\ Count(ResolvedNow.unnamedStructs, (s_char :> 1)) = 2
    /\ Cardinality(RecordsUnnamed((s_char :> 1))) = 1
    /\ Cardinality(Listed(out, "MISSING UNNAMED STRUCT(s):",
                          prettyMapAsStruct((s_char :> 1)))) = 1

\* Point { int } and f(struct Point) returning void have been observed.
PointAndFObserved ==
    /\ pc \in {"done", "aborted"}
    /\ s_Point \in DOMAIN foundStructs
    /\ foundStructs[s_Point] = (s_int :> 1)
    /\ s_f \in DOMAIN foundFuncs
    /\ foundFuncs[s_f] = FuncDecl((s_Point :> 1), s_void)

\* T is bound to Point, f is resolved to (Point: 1) -> void, and the pass ends
\* with no diagnostic and nothing missing.
BoundAndMatched ==
    /\ pc = "done"
    /\ ResolvedNow.varMap = (s_T :> s_Point)
    /\ s_f \in DOMAIN ResolvedNow.funcs
    /\ ResolvedNow.funcs[s_f] = FuncDecl((s_Point :> 1), s_void)
    /\ MismatchItems(out) = {}
    /\ ReportItems(out) = {}
    /\ leftover = NoLeftover

\* C4, as stated: with the template written "%T": {"int": 1}, an observed
\* record Point { int } and the expected f: (%T: 1) -> void, T is bound to
\* Point, f's parameters resolve to {Point: 1}, and an observed f(Point)
\* returning void gives no diagnostic and no missing entry.
C4_MarkedTemplateBinds ==
    (config = DeclFileMarkedVar /\ PointAndFObserved) => BoundAndMatched

\* C4, amended: the same holds when the template is written "T": {"int": 1},
\* its name without the marker, and Point is the observed record of that shape.
C4_TemplateBinds ==
    (config = DeclFileVar /\ PointAndFObserved) => BoundAndMatched

C4_Witness ==
    config = DeclFileVar /\ PointAndFObserved /\ BoundAndMatched

\* What the end of the unit gives for the catalog of DeclFileUnboundWithout
WithoutUnbound ==
    matchAll(resolveAll(fromJSON_Declarations(DeclFileUnboundWithout,
                                              EmptyDeclarations).out, foundStructs),
             foundFuncs, funcLocMap, foundStructs, NoDeref)

\* C5: with f and main referring to %U, which nothing binds, the pass does not
\* stop, f and main have no diagnostic and are not in the missing report, and
\* the diagnostics and the report are those of the catalog without f and main.
C5_UnboundPlaceholderIsDropped ==
    (/\ config = DeclFileUnbound
     /\ pc \in {"done", "aborted"}
     /\ ~ReadsEnd(ResolvedNow, foundStructs, funcLocMap)) =>
        /\ pc = "done"
        /\ DOMAIN leftover.functions \cap {s_f, mainName} = {}
        /\ leftover = WithoutUnbound.leftover
        /\ SelectSeq(out, LAMBDA e : e.kind # "log") = WithoutUnbound.out

\* C6, as stated: main is never recorded, and an expected named function main
\* is always reported missing.
C6_MainAlwaysMissing ==
    /\ mainName \notin DOMAIN foundFuncs
    /\ (pc = "done" /\ mainName \in DOMAIN decls.functions)
          => Listed(out, "MISSING NAMED FUNCTION(s):", mainName) # {}

\* C6, amended: a function named main is never recorded as an observation, so
\* it has no diagnostic and takes no expected entry; an expected named function
\* main that resolution kept is listed as missing in every report.
C6_MainNeverObserved ==
    /\ mainName \notin DOMAIN foundFuncs
    /\ mainName \notin DOMAIN funcLocMap
    /\ (pc = "done" /\ mainName \in DOMAIN ResolvedNow.funcs)
          => /\ Listed(out, "MISSING NAMED FUNCTION(s):", mainName) # {}
             /\ mainName \in DOMAIN leftover.functions

\* main was the last declaration observed, and the report lists main.
C6_Witness ==
    /\ pc = "done"
    /\ config = DeclFileNamed
    /\ lastLoc \in 1..NumDecls
    /\ DeclAt(lastLoc).name = mainName
    /\ Listed(out, "MISSING NAMED FUNCTION(s):", mainName) # {}

\* the JSON of the file does not fit the schema
LoadFails ==
    config.kind = "json" /\ ~fromJSON_Declarations(config, EmptyDeclarations).ok

\* C7: when loading fails on a schema violation the pass emits no mismatch
\* diagnostic and no line of the missing report: the end of the unit never runs
\* on the entries loaded before the violation.
C7_NoOutputAfterLoadFailure ==
    LoadFails =>
        /\ MismatchItems(out) = {}
        /\ ReportItems(out) = {}
        /\ pc \notin {"observing", "done", "aborted"}
        /\ foundFuncs = EmptyMap /\ foundStructs = EmptyMap

\* functions.foo omits "return": bar was loaded before it, and the unit has
\* been traversed with only the load error written.
C7_Witness ==
    /\ pc = "skipped"
    /\ config = DeclFileNoReturn
    /\ s_bar \in DOMAIN decls.functions
    /\ out = <<LoadError>>

\* C10: the observed catalog holds, under the name of the declaration observed
\* last, the signature or shape and the location of that declaration.
C10_LastObservationWins ==
    (lastLoc # 0) =>
        LET decl == DeclAt(lastLoc)
        IN  /\ (decl.kind = "fun" /\ decl.name # mainName)
                  => /\ foundFuncs[decl.name] = currentFunc(decl)
                     /\ funcLocMap[decl.name] = lastLoc
            /\ (decl.kind = "struct" \/ (decl.kind = "typedef" /\ decl.isRecord))
                  => /\ foundStructs[decl.name] = currentStruct(decl)
                     /\ structLocMap[decl.name] = lastLoc

\* The arguments of the mismatch diagnostics in the order of their emission
DiagArgs(o) ==
    [i \in 1..Len(SelectSeq(o, LAMBDA e : e.kind = "mismatch")) |->
        <<SelectSeq(o, LAMBDA e : e.kind = "mismatch")[i].a,
          SelectSeq(o, LAMBDA e : e.kind = "mismatch")[i].b>>]

FuncDiagArgs(keys) ==
    [i \in 1..Len(keys) |->
        <<pretty(ResolvedNow.funcs[keys[i]]), pretty(foundFuncs[keys[i]])>>]

RecordDiagArgs(keys) ==
    [i \in 1..Len(keys) |->
        <<prettyMapAsStruct(ResolvedNow.structs[keys[i]]),
          prettyMapAsStruct(foundStructs[keys[i]])>>]

Observed == {CurrentUnit[i] : i \in 1..Len(CurrentUnit)}

IsFunc(d) == SourceDecls[d].kind = "fun" /\ SourceDecls[d].name # mainName

IsRecord(d) ==
    SourceDecls[d].kind = "struct"
      \/ (SourceDecls[d].kind = "typedef" /\ SourceDecls[d].isRecord)

\* The functions and the records of a set D of declarations with names of
\* their own, by name.
FuncsOf(D) ==
    [n \in {SourceDecls[d].name : d \in {e \in D : IsFunc(e)}} |->
        currentFunc(SourceDecls[CHOOSE d \in D : IsFunc(d) /\ SourceDecls[d].name = n])]

RecordsOf(D) ==
    [n \in {SourceDecls[d].name : d \in {e \in D : IsRecord(e)}} |->
        currentStruct(SourceDecls[CHOOSE d \in D : IsRecord(d) /\ SourceDecls[d].name = n])]

\* What the end of the unit leaves for the report, from the set D alone
LeftoverOf(D) ==
    matchAll(resolveAll(decls, RecordsOf(D)), FuncsOf(D),
             [n \in DOMAIN FuncsOf(D) |-> 0], RecordsOf(D), NoDeref).leftover

\* C11: for a fixed catalog, the observed catalog, the placeholder bindings and
\* the five missing containers are those of the set of the declarations
\* observed (names distinct within a kind), whatever the order of observation.
C11_OrderOfObservationIsIrrelevant ==
    /\ foundFuncs = FuncsOf(Observed)
    /\ foundStructs = RecordsOf(Observed)
    /\ ResolvedNow.varMap = resolveAll(decls, RecordsOf(Observed)).varMap
    /\ pc = "done" /\ config.kind = "json" => leftover = LeftoverOf(Observed)

\* f, which refers to the placeholder, was observed before the record Point and
\* T is bound to Point all the same, with nothing missing.
C11_Witness ==
    /\ pc = "done"
    /\ config = DeclFileVar
    /\ CurrentUnit = <<3, 2>>
    /\ ResolvedNow.varMap = (s_T :> s_Point)
    /\ leftover = NoLeftover

\* The first declaration of the current unit that is a function (a record)
\* called n
FirstFunc(n) ==
    CHOOSE l \in Observed :
        /\ IsFunc(l) /\ SourceDecls[l].name = n
        /\ \A k \in Observed : (IsFunc(k) /\ SourceDecls[k].name = n) => l <= k

FirstRecord(n) ==
    CHOOSE l \in Observed :
        /\ IsRecord(l) /\ SourceDecls[l].name = n
        /\ \A k \in Observed : (IsRecord(k) /\ SourceDecls[k].name = n) => l <= k

FuncNames == {SourceDecls[l].name : l \in {k \in Observed : IsFunc(k)}}

RecordNames == {SourceDecls[l].name : l \in {k \in Observed : IsRecord(k)}}

\* How a process that starts with the current unit can end it
FreshOutcomes ==
    EndOutcomes(fromJSON_Declarations(config, EmptyDeclarations).out,
                [n \in FuncNames |-> currentFunc(DeclAt(FirstFunc(n)))],
                [n \in FuncNames |-> FirstFunc(n)],
                [n \in RecordNames |-> currentStruct(DeclAt(FirstRecord(n)))])

\* C13: in a second pass with the same configuration no function, record or
\* location observed in the first pass is visible, and the pass ends with the
\* diagnostics and the missing report a fresh process gives for its unit.
C13_SecondPassIsFresh ==
    Len(units) = 2 =>
        /\ DOMAIN foundFuncs \subseteq FuncNames
        /\ DOMAIN funcLocMap \subseteq FuncNames
        /\ DOMAIN foundStructs \subseteq RecordNames
        /\ DOMAIN structLocMap \subseteq RecordNames
        /\ pc \in {"done", "aborted"}
              => [pc |-> pc, out |-> out, leftover |-> leftover] \in FreshOutcomes

\* The observed records whose shape is the shape of the template var
MatchingRecords(var) ==
    {n \in DOMAIN foundStructs : foundStructs[n] = decls.varStructs[var]}

\* C15: when several observed records have the shape of one placeholder
\* template, the binding recorded for the placeholder is the last matching
\* record of the resolver's scan.
C15_LastMatchingRecordBinds ==
    \A var \in DOMAIN decls.varStructs :
        (/\ parseType(var).ok
         /\ parseType(var).type = TypeInfo(FALSE, var, 0)
         /\ MatchingRecords(var) # {})
            => /\ var \in DOMAIN ResolvedNow.varMap
               /\ ResolvedNow.varMap[var]
                    = SortedKeys(MatchingRecords(var))[Cardinality(MatchingRecords(var))]

\* The names the binding gives to placeholders
BindingTargets == {ResolvedNow.varMap[k] : k \in DOMAIN ResolvedNow.varMap}

RecordShapes(r) ==
    {foundStructs[n] : n \in DOMAIN foundStructs}
      \cup {r.varStructs[k] : k \in DOMAIN r.varStructs}
      \cup {r.unnamedStructs[i] : i \in 1..Len(r.unnamedStructs)}

\* How many observed records of shape S have no named entry in r
Unnamed(r, S) ==
    Cardinality({n \in DOMAIN foundStructs :
                    n \notin DOMAIN r.structs /\ foundStructs[n] = S})

\* The strict priority, for the resolved containers r and what is left of them
StrictPriority(r) ==
    /\ DOMAIN leftover.structs = DOMAIN r.structs \ DOMAIN foundStructs
    /\ \A S \in RecordShapes(r) :
          /\ Cardinality(VarRecs(leftover.varStructs, S))
               = Monus(Cardinality(VarRecs(r.varStructs, S)), Unnamed(r, S))
          /\ Count(leftover.unnamedStructs, S)
               = Monus(Count(r.unnamedStructs, S),
                       Monus(Unnamed(r, S), Cardinality(VarRecs(r.varStructs, S))))
    /\ (Cardinality(DOMAIN r.structs) - Cardinality(DOMAIN leftover.structs))
         + (Cardinality(DOMAIN r.varStructs) - Cardinality(DOMAIN leftover.varStructs))
         + (Len(r.unnamedStructs) - Len(leftover.unnamedStructs))
         <= Cardinality(DOMAIN foundStructs)

\* C17: the matcher applies a strict priority to every observed record.  A
\* record whose name is a named record removes that entry alone; the others of
\* shape S take one placeholder-resolved record of shape S each while there
\* is one, and only those that find none take one unnamed record of shape S
\* each.  No observed record removes from two categories.
C17_StrictPriority == pc = "done" => StrictPriority(ResolvedNow)

\* S, a named record, and R, of the same shape, were observed: S took its
\* named entry, R took the template T, and the unnamed record of that shape is
\* still missing.
C17_Witness ==
    /\ pc = "done"
    /\ config = DeclFileSameShape
    /\ DOMAIN foundStructs = {s_S, s_R}
    /\ DOMAIN leftover.structs = {}
    /\ DOMAIN leftover.varStructs = {}
    /\ leftover.unnamedStructs = <<(s_char :> 1)>>

\* C18: the location map consulted when a record is diagnosed holds every
\* observed record's name, and the mismatch diagnostic of an observed record
\* that differs from its named entry is emitted at the record's own location.
C18_RecordDiagnosedAtItsLocation ==
    /\ \A n \in DOMAIN foundStructs : n \in DOMAIN funcLocMap
    /\ pc = "done" =>
          \A n \in DifferingRecords :
              \E i \in MismatchItems(out) :
                  /\ out[i].a = prettyMapAsStruct(ResolvedNow.structs[n])
                  /\ out[i].b = prettyMapAsStruct(foundStructs[n])
                  /\ out[i].loc = structLocMap[n]

\* t is a reference to a placeholder that is bound
IsBoundRef(t) ==
    /\ parseType(t).ok
    /\ parseType(t).type.isVar
    /\ parseType(t).type.name \in DOMAIN ResolvedNow.varMap

\* The name the placeholder of t is bound to, then one space and the asterisks
\* of t if it has any
Substituted(t) ==
    ResolvedNow.varMap[parseType(t).type.name]
      \o (IF parseType(t).type.pointers = 0 THEN <<>>
          ELSE <<" ">> \o Asterisks(parseType(t).type.pointers))

Loaded == fromJSON_Declarations(config, EmptyDeclarations)

\* Some anonymous function of d equals a named function's signature, or some
\* anonymous record a named record's shape.
Overlaps(d) ==
    \/ \E i \in 1..Len(d.unnamedFunctions) :
          \E n \in DOMAIN d.functions : d.functions[n] = d.unnamedFunctions[i]
    \/ \E i \in 1..Len(d.unnamedStructs) :
          \E n \in DOMAIN d.structs : d.structs[n] = d.unnamedStructs[i]

\* C20: with the overlap check enabled, a loaded catalog in which an anonymous
\* function equals a named function's signature, or an anonymous record a
\* named record's shape, ends the run before any declaration is observed or
\* matched; a catalog without such a pair passes and is left as loaded.
C20_OverlapEndsTheRun ==
    (config.kind = "json" /\ Loaded.ok) =>
        IF Overlaps(Loaded.out)
        THEN /\ pc \in {"start", "exited"}
             /\ foundFuncs = EmptyMap /\ foundStructs = EmptyMap
             /\ visited = 0
             /\ MismatchItems(out) = {} /\ ReportItems(out) = {}
             /\ pc = "exited" => Len(out) = 1 /\ out[1].kind = "log"
        ELSE /\ pc # "exited"
             /\ pc # "start" => decls = Loaded.out

\* The catalog with the named record S { char: 1 } and an anonymous record of
\* that shape has ended the run with the line of the check.
C20_Witness ==
    /\ pc = "exited"
    /\ config = DeclFileSameShape
    /\ Overlaps(decls)
    /\ out = <<ErrsLine("log", <<"Unnamed struct declaration ">>
                                 \o prettyMapAsStruct((s_char :> 1))
                                 \o <<" has a named counterpart">>)>>

\* The end of the unit for the catalog of DeclFileBadType without bar
WithoutBadType ==
    matchAll(resolveAll(fromJSON_Declarations(DeclFileBadTypeWithout,
                                              EmptyDeclarations).out, foundStructs),
             foundFuncs, funcLocMap, foundStructs, NoDeref)

\* C21: an expected entry with a type token that fails the type grammar is
\* skipped on its own: the pass goes on, the entry has no diagnostic and no
\* line in the missing report, and the diagnostics and the report are those
\* of the catalog without the entry.
C21_BadTypeEntryIsSkippedAlone ==
    (/\ config = DeclFileBadType
     /\ pc \in {"done", "aborted"}
     /\ ~ReadsEnd(ResolvedNow, foundStructs, funcLocMap)) =>
        /\ pc = "done"
        /\ s_bar \notin DOMAIN leftover.functions
        /\ leftover = WithoutBadType.leftover
        /\ SelectSeq(out, LAMBDA e : e.kind # "log") = WithoutBadType.out

\* The headers among the lines o, in the order written
HeadersOf(o) ==
    [k \in 1..Len(SelectSeq(o, LAMBDA e : e.kind = "header")) |->
        SelectSeq(o, LAMBDA e : e.kind = "header")[k].a]

\* The headers of the sections whose leftover set is not empty, in the order
\* named functions, named records, unnamed functions, unnamed records,
\* placeholder records
HeadersDue ==
    (IF DOMAIN leftover.functions # {} THEN <<(<<"MISSING NAMED FUNCTION(s):">>)>> ELSE <<>>)
      \o (IF DOMAIN leftover.structs # {} THEN <<(<<"MISSING NAMED STRUCT(s):">>)>> ELSE <<>>)
      \o (IF Len(leftover.unnamedFunctions) > 0
          THEN <<(<<"MISSING UNNAMED FUNCTION(s):">>)>> ELSE <<>>)
      \o (IF Len(leftover.unnamedStructs) > 0
          THEN <<(<<"MISSING UNNAMED STRUCT(s):">>)>> ELSE <<>>)
      \o (IF DOMAIN leftover.varStructs # {}
          THEN <<(<<"MISSING VARIABLE STRUCT(s):">>)>> ELSE <<>>)

\* C22: the missing summaries are emitted once, at the end of the unit, after
\* every mismatch diagnostic, in the order named functions, named records,
\* unnamed functions, unnamed records, placeholder records, and a section's
\* header is emitted if and only if its leftover set is not empty.
C22_ReportOnceInFixedOrder ==
    /\ pc # "done" => ReportItems(out) = {}
    /\ pc = "done" =>
          /\ \A i \in MismatchItems(out) : \A j \in ReportItems(out) : i < j
          /\ \A j \in ReportItems(out) : \A k \in (j + 1)..Len(out) : k \in ReportItems(out)
          /\ HeadersOf(out) = HeadersDue
          /\ Cardinality(ReportItems(out))
               = Len(HeadersDue)
                   + Cardinality(DOMAIN leftover.functions)
                   + Cardinality(DOMAIN leftover.structs)
                   + Len(leftover.unnamedFunctions) + Len(leftover.unnamedStructs)
                   + Cardinality(DOMAIN leftover.varStructs)

\* A unit has ended with a mismatch diagnostic and then four of the five
\* sections, the one of the placeholder records being empty.
C22_Witness ==
    /\ pc = "done"
    /\ config = DeclFileNamed
    /\ MismatchItems(out) # {}
    /\ Len(HeadersOf(out)) = 4
    /\ DOMAIN leftover.varStructs = {}

\* t parses and is no placeholder reference
PlainType(t) == parseType(t).ok /\ ~parseType(t).type.isVar

\* Every type key of the shape parses and none refers to a placeholder
PlainShape(pMap) == \A t \in DOMAIN pMap : PlainType(t)

g_PointerToInt == FuncDecl((s_int \o <<" ", "*">> :> 1), s_void)

\* C23: resolution is the identity on declarations without placeholders: an
\* expected function or record whose type strings all parse and hold no "%"
\* reference keeps every type key, pointer types included, and every count,
\* so the expected g: ("int *": 1) -> void matches the observed
\* void g(int *) without a diagnostic.
C23_ResolutionIsIdentityWithoutPlaceholders ==
    /\ \A n \in DOMAIN decls.functions :
          (PlainShape(decls.functions[n].pMap) /\ PlainType(decls.functions[n].retType))
              => /\ n \in DOMAIN ResolvedNow.funcs
                 /\ ResolvedNow.funcs[n] = decls.functions[n]
    /\ \A n \in DOMAIN decls.structs :
          PlainShape(decls.structs[n])
              => /\ n \in DOMAIN ResolvedNow.structs
                 /\ ResolvedNow.structs[n] = decls.structs[n]
    /\ (/\ pc = "done"
        /\ config = DeclFileResolve
        /\ <<"g">> \in DOMAIN foundFuncs
        /\ foundFuncs[<<"g">>] = g_PointerToInt)
          => \A i \in MismatchItems(out) : out[i].b # pretty(g_PointerToInt)

\* The sum of the counts of a shape
RECURSIVE SumCounts(_, _, _)
SumCounts(pMap, keys, i) ==
    IF i > Len(keys) THEN 0 ELSE pMap[keys[i]] + SumCounts(pMap, keys, i + 1)

Size(pMap) == SumCounts(pMap, SortedKeys(DOMAIN pMap), 1)

\* C24: resolution preserves the size of a shape as a multiset: for every
\* expected shape that resolves, the counts of the resolved shape sum to what
\* the counts of the original sum to, also when two type keys resolve to one
\* name ({"%T": 1, "Point": 1} with T bound to Point gives {Point: 2}).
C24_ResolutionKeepsSize ==
    /\ \A n \in DOMAIN decls.functions \cap DOMAIN ResolvedNow.funcs :
          Size(ResolvedNow.funcs[n].pMap) = Size(decls.functions[n].pMap)
    /\ \A n \in DOMAIN decls.structs \cap DOMAIN ResolvedNow.structs :
          Size(ResolvedNow.structs[n]) = Size(decls.structs[n])
    /\ \A n \in DOMAIN decls.varStructs \cap DOMAIN ResolvedNow.varStructs :
          Size(ResolvedNow.varStructs[n]) = Size(decls.varStructs[n])

\* C26, as stated: a placeholder template that obtained a binding is never
\* listed under the missing placeholder records, also when the observed
\* record it is bound to is a key of the named records.
C26_BoundTemplateNeverMissing ==
    pc = "done" =>
        \A k \in DOMAIN leftover.varStructs : k \notin DOMAIN ResolvedNow.varMap

\* The place of the template k among the templates of r of its shape, in
\* name order
PlaceOf(r, k) ==
    CHOOSE i \in 1..Cardinality(VarRecs(r.varStructs, r.varStructs[k])) :
        SortedKeys(VarRecs(r.varStructs, r.varStructs[k]))[i] = k

\* The templates of r that matching leaves: those that no observed record
\* without a named entry takes
TemplatesLeft(r) ==
    {k \in DOMAIN r.varStructs : PlaceOf(r, k) > Unnamed(r, r.varStructs[k])}

\* C26, amended: a placeholder template, bound or not, is consumed during
\* matching only by an observed record of its resolved shape whose name is no
\* key of the named records: with u such records the first u templates of
\* that shape in name order are consumed.  A template bound to an observed
\* record that is a named record, with no other record of its shape, is
\* listed under the missing placeholder records.
C26_TemplateConsumedByUnnamedRecordOnly ==
    pc = "done" => DOMAIN leftover.varStructs = TemplatesLeft(ResolvedNow)

\* S, a named record of the template's shape, is the only record observed: T
\* is bound to S, S took its named entry, and T is listed as missing.
C26_Witness ==
    /\ pc = "done"
    /\ config = DeclFileSameShape
    /\ DOMAIN foundStructs = {s_S}
    /\ ResolvedNow.varMap = (s_T :> s_S)
    /\ DOMAIN leftover.structs = {}
    /\ s_T \in DOMAIN leftover.varStructs
    /\ Listed(out, "MISSING VARIABLE STRUCT(s):", s_T) # {}

-----------------------------------------------------------------------------
(* The parser on its own: toString and parseType applied to bounded inputs *)

s_struct == <<"s","t","r","u","c","t">>
s_structx == <<"s","t","r","u","c","t","x">>

\* Strings are drawn with at most MaxLen characters after an optional prefix,
\* identifiers with at most MaxIdLen, pointer depths up to MaxPtr.
MaxLen == 3

MaxIdLen == 2

MaxPtr == 2

ParseChars == {"a", "1", "_", " ", "*", "%"}

IdChars == {"a", "1", "_"}

RECURSIVE StringsUpTo(_, _)
StringsUpTo(A, n) ==
    IF n = 0 THEN {<<>>}
    ELSE StringsUpTo(A, n - 1)
           \cup {Append(s, c) : s \in StringsUpTo(A, n - 1), c \in A}

\* first character a letter or underscore, the rest alphanumeric or underscore
IsIdentifier(n) ==
    /\ n # <<>>
    /\ isalpha(n[1]) \/ n[1] = "_"
    /\ \A i \in 2..Len(n) : isAlphanumeric(n[i]) \/ n[i] = "_"

IdNames ==
    {n \in StringsUpTo(IdChars, MaxIdLen) : IsIdentifier(n)}
      \cup {s_int, s_Point, s_struct, s_structx}

TypeInfos ==
    {TypeInfo(v, n, p) : v \in BOOLEAN, n \in IdNames, p \in 0..MaxPtr}

ParseInputs ==
    {p \o s : p \in {<<>>, <<"%">>, structPrefix, <<"%">> \o structPrefix},
              s \in StringsUpTo(ParseChars, MaxLen)}
      \cup {<<"1","a","b","c">>, s_int \o <<" ","*"," ","*">>, s_int \o <<"*">>,
            s_int \o <<" "," ","*">>, s_int \o <<" ">>, s_Point \o <<" ","*","*">>,
            s_int \o <<" ","*">>}

PassIdle ==
    /\ config = DeclFileNotSet
    /\ pc = "idle"
    /\ decls = EmptyDeclarations
    /\ foundFuncs = EmptyMap
    /\ funcLocMap = EmptyMap
    /\ foundStructs = EmptyMap
    /\ structLocMap = EmptyMap
    /\ lastLoc = 0
    /\ visited = 0
    /\ units = <<<<>>>>
    /\ out = <<>>
    /\ leftover = NoLeftover

InitParse ==
    /\ PassIdle
    /\ res = ParseOk(TypeInfo(FALSE, <<>>, 0))
    /\ \/ ppc = "type" /\ ti \in TypeInfos /\ str = <<>>
       \/ ppc = "string" /\ str \in ParseInputs /\ ti = TypeInfo(FALSE, <<>>, 0)

\* str = ti.toString()
Render ==
    /\ ppc = "type"
    /\ str' = toString(ti)
    /\ ppc' = "rendered"
    /\ UNCHANGED <<ti, res, passVars>>

\* res = parseType(str)
Parse ==
    /\ ppc \in {"rendered", "string"}
    /\ res' = parseType(str)
    /\ ppc' = IF ppc = "rendered" THEN "roundtrip" ELSE "parsed"
    /\ UNCHANGED <<str, ti, passVars>>

NextParse == Render \/ Parse

SpecParse == InitParse /\ [][NextParse]_vars

-----------------------------------------------------------------------------
(* Properties of the parser *)

\* C8, as stated: for every descriptor with a valid identifier as its name
\* ("struct" included), any placeholder flag and any pointer depth >= 0,
\* parseType(d.toString()) succeeds and equals d in all three fields.
C8_RoundTripEveryIdentifier ==
    ppc = "roundtrip" => res.ok /\ res.type = ti

\* C8, amended: the round trip holds for every such descriptor except the name
\* "struct" with a pointer depth of 1 or more, whose rendering "struct *"
\* begins with the record keyword and a space.
C8_RoundTrip ==
    (ppc = "roundtrip" /\ ~(ti.name = s_struct /\ ti.pointers > 0))
        => (res.ok /\ res.type = ti)

\* A placeholder called "struct" without pointers, and a pointer to a pointer,
\* have both made the round trip.
C8_Witness ==
    /\ ppc = "roundtrip"
    /\ res.ok
    /\ res.type = ti
    /\ \/ ti = TypeInfo(TRUE, s_struct, 0)
       \/ ti = TypeInfo(FALSE, s_structx, 2)

\* How far a string is looked ahead to tell whether it can still become a type.
MaxExt == 2

\* Some continuation of the prefix p is a type string parseType accepts.
Viable(p) == \E e \in StringsUpTo(ParseChars, MaxExt) : parseType(p \o e).ok

\* C9: a rejected input is rejected at the index of the first character that
\* violates the grammar: what stands before that index can still be completed
\* to a type string and nothing that includes the character there can (the
\* index is the length when the string ends too early); "1abc" fails at 0 and
\* "int * *" at 5, the second space.
C9_ErrorAtFirstIllegalCharacter ==
    ppc = "parsed" =>
        /\ ~res.ok =>
              /\ res.pos \in 0..Len(str)
              /\ Viable(SubSeq(str, 1, res.pos))
              /\ res.pos < Len(str) => ~Viable(SubSeq(str, 1, res.pos + 1))
        /\ str = <<"1","a","b","c">> => ~res.ok /\ res.pos = 0
        /\ str = s_int \o <<" ","*"," ","*">> => ~res.ok /\ res.pos = 5

\* "int * *" has been rejected at its second space.
C9_Witness ==
    /\ ppc = "parsed"
    /\ str = s_int \o <<" ","*"," ","*">>
    /\ ~res.ok
    /\ res.pos = 5

\* n spaces
Spaces(n) == [i \in 1..n |-> " "]

\* C14: a pointer type string is accepted only when exactly one space
\* separates the base identifier from the asterisks: parseType fails on
\* "int*" and on "int  *", and succeeds on "int *" with pointer depth 1.
C14_ExactlyOneSpaceBeforeAsterisks ==
    ppc = "parsed" =>
        \A n \in 0..2, k \in 1..MaxPtr :
            str = s_int \o Spaces(n) \o Asterisks(k)
                => /\ res.ok <=> n = 1
                   /\ res.ok => res.type = TypeInfo(FALSE, s_int, k)

\* C25: whenever parseType fails, the position reported is an index of the
\* input (position < length), so the character ParseTypeError reports is a
\* character of the input; so it is for the empty string and for an identifier
\* followed only by spaces.
C25_ErrorPositionIsAnIndex ==
    ppc = "parsed" =>
        /\ ~res.ok => res.pos \in 0..(Len(str) - 1) /\ At(str, res.pos) # NUL
        /\ str \in {<<>>, s_int \o <<" ">>} => ~res.ok

=============================================================================
